---- MODULE Spec2Model ----
(***************************************************************************)
(* Model of scripts/run_grid_sweep.py: the grid sweep over ring count and  *)
(* cat-pump strength (run_sweep, logical_error_rate) and the command line  *)
(* entry point that persists the table (main).                             *)
(*                                                                         *)
(* Two ways into the code are modelled, chosen in Init:                    *)
(*   entry = "main"       the CLI: --shots is the input, the grid is the   *)
(*                        fixed one of main;                               *)
(*   entry = "run_sweep"  a direct call of run_sweep(N_r_values,           *)
(*                        kappa2_kHz, shots) by a caller with its own      *)
(*                        lists.                                           *)
(* Stim/PyMatching sampling is the only source of nondeterminism of the    *)
(* evaluator: the number of failing shots is any value in 0..shots, or the *)
(* library raises.  Real numbers are exact rationals [num, den].           *)
(***************************************************************************)
EXTENDS Integers, Sequences, FiniteSets, TLC

VARIABLES
    entry,          \* "main" | "run_sweep"
    pc,             \* position in the code
    shots,          \* args.shots / the shots argument
    N_r_values,     \* ring-count list
    kappa2_values,  \* pump-strength list (kHz)
    i, j,           \* positions of the outer and the inner for-loop (1-based)
    records,        \* the list of row dicts built by run_sweep
    calls,          \* log of the evaluator invocations (Stim circuit + sampler)
    raised,         \* the exception leaving the code, "none" if none
    exit_status,    \* process exit status of main: -1 while running
    results_dir,    \* "absent" | "created"
    csv,            \* results/epsilon_log.csv: [exists, lines]
    png             \* results/grid_sweep.png exists

vars == <<entry, pc, shots, N_r_values, kappa2_values, i, j, records, calls,
          raised, exit_status, results_dir, csv, png>>

----------------------------------------------------------------------------
\* Bounds of the model
MaxShots == 1       \* largest --shots / shots value tried
MaxNeg == 1         \* most negative --shots value tried is -MaxNeg
MaxLen == 3         \* longest caller-supplied list of a direct run_sweep call
MaxGrid == 4        \* most grid points (|R| x |K|) of a direct run_sweep call

\* Values a direct caller draws its lists from (positive, as the contract asks)
RingVals == {3, 5}
PumpVals == {50, 150}

----------------------------------------------------------------------------
\* Exact rationals
RECURSIVE GCD(_, _)
GCD(a, b) == IF b = 0 THEN a ELSE GCD(b, a % b)

Rat(n, d) == LET g == GCD(n, d) IN [num |-> n \div g, den |-> d \div g]

RatDiv(a, b) == Rat(a.num * b.den, a.den * b.num)

RatLess(a, b) == a.num * b.den < b.num * a.den

----------------------------------------------------------------------------
\* Program constants
DefaultRings == <<3, 5, 7>>
DefaultPumps == <<50, 150, 300>>
Distance == 3
RefHz == 50000
P_PHYS == Rat(1, 1000)

SeqsUpTo(S, n) == UNION {[1..m -> S] : m \in 0..n}

----------------------------------------------------------------------------
\* main, line 111: the test that rejects the shot count
ShotsInvalidStrict(s) == s < 0

ShotsInvalid(s) == s <= 0

\* run_sweep, line 90: the argument k2 * 1e3 (kHz to Hz)
KHzUnconverted(k2) == k2

KHzToHz(k2) == k2 * 1000

\* logical_error_rate, line 52: beta = kappa2_hz / 50_000.0
Beta(kappa2_hz) == Rat(kappa2_hz, RefHz)

\* logical_error_rate, line 53: meas_flip = p_phys / beta
MeasFlip(p_phys, beta) == RatDiv(p_phys, beta)

\* logical_error_rate, lines 54-64: the circuit handed to Stim and the
\* number of samples asked of its sampler
Circuit(N_r, kappa2_hz, n_shots, p_phys) ==
    [distance |-> Distance,
     rounds |-> N_r,
     after_clifford_depolarization |-> p_phys,
     before_measure_flip_probability |-> MeasFlip(p_phys, Beta(kappa2_hz)),
     shots |-> n_shots]

\* logical_error_rate, lines 66-67: failures / shots
ErrorRate(failures, n_shots) == Rat(failures, n_shots)

\* run_sweep, line 91: the row appended for one grid point
RecordRingTwice(N_r, k2, eps_log) ==
    [N_r |-> N_r, kappa2_kHz |-> N_r, eps_log |-> eps_log]

RecordComplement(N_r, k2, eps_log) ==
    [N_r |-> N_r, kappa2_kHz |-> k2,
     eps_log |-> Rat(eps_log.den - eps_log.num, eps_log.den)]

Record(N_r, k2, eps_log) ==
    [N_r |-> N_r, kappa2_kHz |-> k2, eps_log |-> eps_log]

\* run_sweep, lines 88-89: the nested for-loops.  HasNextPoint: a loop body
\* is still to run; NextPoint: the loop positions after one body.
HasNextPoint(a, b) == a <= Len(N_r_values) /\ b <= Len(kappa2_values)

NextPointRingFirst(a, b) ==
    IF a < Len(N_r_values) THEN <<a + 1, b>> ELSE <<1, b + 1>>

NextPoint(a, b) ==
    IF b < Len(kappa2_values) THEN <<a, b + 1>> ELSE <<a + 1, 1>>

\* main, line 122: df.to_csv(csv_path, index=False): the header line, then
\* one line per row, the cells in column order
CsvHeader == <<"N_r", "kappa2_kHz", "eps_log">>

CsvLine(r) == <<r.N_r, r.kappa2_kHz, r.eps_log>>

CsvText(recs) == <<CsvHeader>> \o [n \in 1..Len(recs) |-> CsvLine(recs[n])]

Prefix(s, n) == [m \in 1..n |-> s[m]]

NoFile == [exists |-> FALSE, lines |-> <<>>]

----------------------------------------------------------------------------
\* State after the process (or the caller) has started, before the first
\* statement of main (or of run_sweep).
Init ==
    /\ entry \in {"main", "run_sweep"}
    /\ IF entry = "main"
       THEN /\ pc = "main"
            /\ shots \in (0 - MaxNeg)..MaxShots
            /\ N_r_values = <<>>
            /\ kappa2_values = <<>>
       ELSE /\ pc = "sweep"
            /\ shots \in 1..MaxShots
            /\ N_r_values \in SeqsUpTo(RingVals, MaxLen)
            /\ kappa2_values \in SeqsUpTo(PumpVals, MaxLen)
            /\ Len(N_r_values) * Len(kappa2_values) <= MaxGrid
    /\ i = 1
    /\ j = 1
    /\ records = <<>>
    /\ calls = <<>>
    /\ raised = "none"
    /\ exit_status = -1
    /\ results_dir = "absent"
    /\ csv = NoFile
    /\ png = FALSE

\* The shape of the state: the local variables of main and run_sweep, the
\* evaluator's invocations, and the files under results/
RatValues == {Rat(f, s) : f \in 0..MaxShots, s \in 1..MaxShots}

TypeOK ==
    /\ entry \in {"main", "run_sweep"}
    /\ pc \in {"main", "sweep", "returned", "raised", "mkdir", "to_csv",
               "savefig", "exited"}
    /\ shots \in (0 - MaxNeg)..MaxShots
    /\ i \in 1..(Len(N_r_values) + 1)
    /\ j \in 1..(Len(kappa2_values) + 1)
    /\ \A n \in 1..Len(records) :
         /\ DOMAIN records[n] = {"N_r", "kappa2_kHz", "eps_log"}
         /\ records[n].eps_log \in RatValues
    /\ \A n \in 1..Len(calls) :
         /\ calls[n].failed \in BOOLEAN
         /\ calls[n].ret \in RatValues
    /\ raised \in {"none", "SystemExit", "EvaluatorError", "OSError"}
    /\ exit_status \in {-1, 0, 1}
    /\ results_dir \in {"absent", "created"}
    /\ csv.exists \in BOOLEAN
    /\ png \in BOOLEAN

\* An exception leaves the code: main's process ends with status 1, a direct
\* caller of run_sweep gets the exception.
Propagate(exc) ==
    /\ raised' = exc
    /\ pc' = IF entry = "main" THEN "exited" ELSE "raised"
    /\ exit_status' = IF entry = "main" THEN 1 ELSE exit_status

\* main, lines 109-115: parse_args, the shots check, the fixed grid
MainCheckShots ==
    /\ pc = "main"
    /\ IF ShotsInvalid(shots)
       THEN /\ Propagate("SystemExit")
            /\ UNCHANGED <<N_r_values, kappa2_values>>
       ELSE /\ N_r_values' = DefaultRings
            /\ kappa2_values' = DefaultPumps
            /\ pc' = "sweep"
            /\ UNCHANGED <<raised, exit_status>>
    /\ UNCHANGED <<entry, shots, i, j, records, calls, results_dir, csv, png>>

\* run_sweep, lines 88-91, one loop body whose evaluator call returns:
\* logical_error_rate samples, counts the failing shots and returns the rate
EvaluatorReturns ==
    /\ pc = "sweep"
    /\ HasNextPoint(i, j)
    /\ \E failures \in 0..shots :
         LET N_r == N_r_values[i]
             k2 == kappa2_values[j]
             eps_log == ErrorRate(failures, shots)
         IN /\ calls' = Append(calls,
                  [circuit |-> Circuit(N_r, KHzToHz(k2), shots, P_PHYS),
                   failed |-> FALSE, ret |-> eps_log])
            /\ records' = Append(records, Record(N_r, k2, eps_log))
    /\ i' = NextPoint(i, j)[1]
    /\ j' = NextPoint(i, j)[2]
    /\ UNCHANGED <<entry, pc, shots, N_r_values, kappa2_values, raised,
                   exit_status, results_dir, csv, png>>

\* A variant of EvaluatorRaises that catches the failure and goes on with
\* the next grid point
EvaluatorRaisesSwallowed ==
    /\ pc = "sweep"
    /\ HasNextPoint(i, j)
    /\ calls' = Append(calls,
          [circuit |-> Circuit(N_r_values[i], KHzToHz(kappa2_values[j]), shots, P_PHYS),
           failed |-> TRUE, ret |-> Rat(0, 1)])
    /\ i' = NextPoint(i, j)[1]
    /\ j' = NextPoint(i, j)[2]
    /\ UNCHANGED <<entry, pc, shots, N_r_values, kappa2_values, records, raised,
                   exit_status, results_dir, csv, png>>

\* run_sweep, line 90, the evaluator call raises (Stim or PyMatching): no
\* handler in run_sweep or main, the exception leaves both
EvaluatorRaises ==
    /\ pc = "sweep"
    /\ HasNextPoint(i, j)
    /\ calls' = Append(calls,
          [circuit |-> Circuit(N_r_values[i], KHzToHz(kappa2_values[j]), shots, P_PHYS),
           failed |-> TRUE, ret |-> Rat(0, 1)])
    /\ Propagate("EvaluatorError")
    /\ UNCHANGED <<entry, shots, N_r_values, kappa2_values, i, j, records,
                   results_dir, csv, png>>

\* A variant of RunSweepReturn that rejects empty lists
RunSweepReturnValidating ==
    /\ pc = "sweep"
    /\ ~HasNextPoint(i, j)
    /\ IF N_r_values = <<>> \/ kappa2_values = <<>>
       THEN Propagate("ValueError")
       ELSE /\ pc' = IF entry = "main" THEN "mkdir" ELSE "returned"
            /\ UNCHANGED <<raised, exit_status>>
    /\ UNCHANGED <<entry, shots, N_r_values, kappa2_values, i, j, records, calls,
                   results_dir, csv, png>>

\* run_sweep, line 92: the loops are over, the table is returned (to main,
\* line 117, or to the direct caller)
RunSweepReturn ==
    /\ pc = "sweep"
    /\ ~HasNextPoint(i, j)
    /\ pc' = IF entry = "main" THEN "mkdir" ELSE "returned"
    /\ UNCHANGED <<entry, shots, N_r_values, kappa2_values, i, j, records, calls,
                   raised, exit_status, results_dir, csv, png>>

\* main, lines 119-120: results_dir.mkdir(exist_ok=True), or OSError
Mkdir ==
    /\ pc = "mkdir"
    /\ \/ /\ results_dir' = "created"
          /\ pc' = "to_csv"
          /\ UNCHANGED <<raised, exit_status>>
       \/ /\ Propagate("OSError")
          /\ UNCHANGED results_dir
    /\ UNCHANGED <<entry, shots, N_r_values, kappa2_values, i, j, records, calls,
                   csv, png>>

\* main, lines 121-122: df.to_csv opens results/epsilon_log.csv for writing
\* and writes the text to it.  An I/O error strikes before the file is
\* created, or after any number of lines has reached the file.
ToCsv ==
    /\ pc = "to_csv"
    /\ LET text == CsvText(records)
       IN \/ /\ csv' = [exists |-> TRUE, lines |-> text]
             /\ pc' = "savefig"
             /\ UNCHANGED <<raised, exit_status>>
          \/ /\ UNCHANGED csv
             /\ Propagate("OSError")
          \/ /\ \E n \in 0..Len(text) :
                   csv' = [exists |-> TRUE, lines |-> Prefix(text, n)]
             /\ Propagate("OSError")
    /\ UNCHANGED <<entry, shots, N_r_values, kappa2_values, i, j, records, calls,
                   results_dir, png>>

\* main, lines 124-136: the scatter plot, fig.savefig(results/grid_sweep.png),
\* then show or close; main returns and the process ends with status 0
SaveFig ==
    /\ pc = "savefig"
    /\ \/ /\ png' = TRUE
          /\ pc' = "exited"
          /\ exit_status' = 0
          /\ UNCHANGED raised
       \/ /\ Propagate("OSError")
          /\ UNCHANGED png
    /\ UNCHANGED <<entry, shots, N_r_values, kappa2_values, i, j, records, calls,
                   results_dir, csv>>

Next ==
    \/ MainCheckShots
    \/ EvaluatorReturns
    \/ EvaluatorRaises
    \/ RunSweepReturn
    \/ Mkdir
    \/ ToCsv
    \/ SaveFig

Spec == Init /\ [][Next]_vars

----------------------------------------------------------------------------
\* Vocabulary of the properties

\* run_sweep has returned its table (to main or to the direct caller)
TableReturned ==
    \/ pc \in {"returned", "mkdir", "to_csv", "savefig"}
    \/ pc = "exited" /\ raised \in {"none", "OSError"}

GridSize == Len(N_r_values) * Len(kappa2_values)

\* ring count and pump strength of grid point number n (1-based), outer loop
\* over the ring counts, inner loop over the pump strengths
RingAt(n) == N_r_values[((n - 1) \div Len(kappa2_values)) + 1]

PumpAt(n) == kappa2_values[((n - 1) % Len(kappa2_values)) + 1]

NoFilesWritten == results_dir = "absent" /\ ~csv.exists /\ ~png

NoRepeats(s) == \A m, n \in 1..Len(s) : m /= n => s[m] /= s[n]

----------------------------------------------------------------------------
\* C1: the table has |R| x |K| rows, and row i*|K|+j (0-based) carries ring
\* count R[i] and pump strength K[j]; every row present while the loops run is
\* already at its place; the default grid of main gives exactly 9 rows, one
\* per pair of {3,5,7} x {50,150,300}.
C1_RowsFollowGrid ==
    /\ \A n \in 1..Len(records) :
         /\ n <= GridSize
         /\ records[n].N_r = RingAt(n)
         /\ records[n].kappa2_kHz = PumpAt(n)
    /\ TableReturned => Len(records) = GridSize
    /\ (TableReturned /\ entry = "main") =>
         /\ Len(records) = 9
         /\ {<<records[n].N_r, records[n].kappa2_kHz>> : n \in 1..Len(records)}
              = {3, 5, 7} \X {50, 150, 300}

C1_Witness ==
    /\ entry = "main" /\ pc = "exited" /\ exit_status = 0
    /\ Len(records) = 9
    /\ records[4].N_r = 5 /\ records[4].kappa2_kHz = 50

\* C2: main run with --shots <= 0 ends with a nonzero exit status, and in no
\* state of the run has the evaluator been called or results/, the CSV or
\* the plot been written.
C2_InvalidShotsRejected ==
    (entry = "main" /\ shots <= 0) =>
        /\ calls = <<>>
        /\ NoFilesWritten
        /\ pc \in {"main", "exited"}
        /\ pc = "exited" => exit_status > 0

C2_Witness == entry = "main" /\ shots = 0 /\ pc = "exited" /\ exit_status = 1

\* C3: an evaluator failure at any grid point propagates unchanged, is the
\* last evaluator call of the run, aborts it, and leaves no file; files
\* exist only after all |R| x |K| evaluator calls have returned.
C3_EvaluatorFailureAborts ==
    /\ \A n \in 1..Len(calls) :
         calls[n].failed =>
            /\ n = Len(calls)
            /\ raised = "EvaluatorError"
            /\ pc = IF entry = "main" THEN "exited" ELSE "raised"
            /\ entry = "main" => exit_status > 0
            /\ NoFilesWritten
    /\ ~NoFilesWritten =>
         /\ Len(calls) = GridSize
         /\ \A n \in 1..Len(calls) : ~calls[n].failed

C3_Witness ==
    /\ entry = "main" /\ raised = "EvaluatorError" /\ pc = "exited"
    /\ Len(calls) = 5 /\ Len(records) = 4

\* C4 as claimed: run_sweep given an empty ring-count or pump-strength list
\* reports an error.
C4_EmptyListsRejected ==
    (entry = "run_sweep" /\ pc /= "sweep"
       /\ (N_r_values = <<>> \/ kappa2_values = <<>>))
    => (raised /= "none" /\ NoFilesWritten)

\* C4 (amended): run_sweep given an empty ring-count or pump-strength list
\* raises nothing: it never calls the evaluator, returns a table with no
\* rows, and writes no file.
C4_EmptyListsYieldEmptyTable ==
    (entry = "run_sweep" /\ (N_r_values = <<>> \/ kappa2_values = <<>>)) =>
        /\ raised = "none"
        /\ pc \in {"sweep", "returned"}
        /\ calls = <<>>
        /\ records = <<>>
        /\ NoFilesWritten

C4_Witness ==
    /\ entry = "run_sweep" /\ pc = "returned"
    /\ N_r_values /= <<>> /\ kappa2_values = <<>>

\* C5: every eps_log of the table lies strictly between 0 and 1.
C5_EpsStrictlyInside ==
    \A n \in 1..Len(records) :
        /\ 0 < records[n].eps_log.num
        /\ records[n].eps_log.num < records[n].eps_log.den

\* C6: for a fixed ring count, eps_log does not increase with kappa2_kHz.
C6_EpsNonIncreasing ==
    \A m, n \in 1..Len(records) :
        (records[m].N_r = records[n].N_r
           /\ records[m].kappa2_kHz < records[n].kappa2_kHz)
        => ~RatLess(records[m].eps_log, records[n].eps_log)

\* C7: the eps_log cell of each row is the value the evaluator returned for
\* the call made for that row's ring count and pump strength; when every
\* call returned the same constant c, every cell is c, and the rows are as
\* many as the returned calls, in call order.  (The call made for pump
\* strength k kHz is known by its flip probability 1e-3 / (k * 1000 / 50000)
\* = 1 / (20 k).)
C7_CellsAreEvaluatorReturns ==
    LET returned == {n \in 1..Len(calls) : ~calls[n].failed}
    IN /\ returned = 1..Len(records)
       /\ \A n \in 1..Len(records) :
            /\ records[n].eps_log = calls[n].ret
            /\ calls[n].circuit.rounds = records[n].N_r
            /\ calls[n].circuit.before_measure_flip_probability.den
                 = 20 * records[n].kappa2_kHz
                     * calls[n].circuit.before_measure_flip_probability.num
       /\ \A f \in 0..MaxShots, s \in 1..MaxShots :
            (\A n \in returned : calls[n].ret = Rat(f, s))
            => (\A n \in 1..Len(records) : records[n].eps_log = Rat(f, s))

C7_Witness ==
    /\ TableReturned /\ Len(records) = 9
    /\ \A n \in 1..Len(records) :
         records[n].eps_log = [num |-> 1, den |-> 1] /\ calls[n].ret = records[n].eps_log

\* C8 as claimed: no two rows carry the same (ring count, pump strength),
\* for any non-empty lists of positive values.
C8_NoDuplicatePairs ==
    (N_r_values /= <<>> /\ kappa2_values /= <<>>
       /\ (\A n \in 1..Len(N_r_values) : N_r_values[n] > 0)
       /\ (\A n \in 1..Len(kappa2_values) : kappa2_values[n] > 0))
    => \A m, n \in 1..Len(records) :
         m /= n => <<records[m].N_r, records[m].kappa2_kHz>>
                     /= <<records[n].N_r, records[n].kappa2_kHz>>

\* C8 (amended): no two rows carry the same (ring count, pump strength),
\* for any non-empty lists of positive values in which no value is repeated.
C8_NoDuplicatePairsOfDistinctLists ==
    (N_r_values /= <<>> /\ kappa2_values /= <<>>
       /\ (\A n \in 1..Len(N_r_values) : N_r_values[n] > 0)
       /\ (\A n \in 1..Len(kappa2_values) : kappa2_values[n] > 0)
       /\ NoRepeats(N_r_values) /\ NoRepeats(kappa2_values))
    => \A m, n \in 1..Len(records) :
         m /= n => <<records[m].N_r, records[m].kappa2_kHz>>
                     /= <<records[n].N_r, records[n].kappa2_kHz>>

C8_Witness ==
    /\ entry = "run_sweep" /\ pc = "returned"
    /\ Len(N_r_values) = 2 /\ Len(kappa2_values) = 2
    /\ NoRepeats(N_r_values) /\ NoRepeats(kappa2_values)
    /\ Len(records) = 4

\* C9: an I/O error ends the process with a nonzero status, and the CSV on
\* disk is absent or holds the header and every row of the table, in table
\* order; never a proper prefix.
C9_CsvAllOrNothing ==
    /\ raised = "OSError" => (pc = "exited" /\ exit_status > 0)
    /\ csv.exists => csv.lines = CsvText(records)

\* C10: every grid point gets exactly one evaluator call, with distance 3,
\* rounds = ring count, depolarizing rate 1e-3, samples = shots, and
\* measurement flip probability 1e-3 / (pump_kHz * 1000 / 50000): 1e-3,
\* 1e-3/3 and 1e-3/6 for 50, 150 and 300 kHz.
C10_EvaluatorArguments ==
    /\ \A n \in 1..Len(calls) :
         LET c == calls[n].circuit
             flip == c.before_measure_flip_probability
             k == PumpAt(n)
         IN /\ n <= GridSize
            /\ c.distance = 3
            /\ c.rounds = RingAt(n)
            /\ c.after_clifford_depolarization.num * 1000
                 = c.after_clifford_depolarization.den
            /\ c.shots = shots
            /\ flip.num * 1000 * (k * 1000) = flip.den * 50000
            /\ k = 50 => flip = [num |-> 1, den |-> 1000]
            /\ k = 150 => flip = [num |-> 1, den |-> 3000]
            /\ k = 300 => flip = [num |-> 1, den |-> 6000]
    /\ TableReturned => Len(calls) = GridSize

C10_Witness ==
    /\ entry = "main" /\ TableReturned /\ Len(calls) = 9
    /\ calls[9].circuit.rounds = 7
    /\ calls[9].circuit.before_measure_flip_probability = [num |-> 1, den |-> 6000]

====
